---- MODULE Spec2Model ----
(***************************************************************************)
(* Coding_Mentor: the code execution engine of app.py                      *)
(* (execute_python_code, execute_javascript_code, execute_java_code) and   *)
(* the analysis pipeline of code_analyzer.py (analyze_python_code).        *)
(*                                                                         *)
(* Each call is a sequential flow (a program counter per call) over a      *)
(* shared temp-file namespace.  Children (interpreter, runtime probe,      *)
(* compiler) are the environment: a launched child either exits with an    *)
(* outcome chosen by the environment or stays running.  Text is a sequence *)
(* of tokens; a byte string is a sequence of byte tokens, "BAD" being a    *)
(* byte sequence that is not valid UTF-8 and "RC" the replacement          *)
(* character U+FFFD.                                                       *)
(***************************************************************************)
EXTENDS Integers, Sequences, FiniteSets, TLC

\* ------------------------------------------------------------------ bounds
NumCalls == 2      \* calls that may be in flight together (ConcSpec)
MaxOutLen == 2     \* bytes a user program writes to standard output

CallIds == 1..NumCalls
\* temp names: a call allocates at most one, so one name per call is enough
Paths == 1..NumCalls

\* ------------------------------------------------------------- source texts
\* A source text is a sequence of tokens; its last token stands for what the
\* program prints, so that an output can be traced to the source that made it.
ScriptSources == { <<"print", "1">>, <<"print", "2">> }
JavaSources ==
    { <<"public", " ", "class", " ", "M", "{", "1">>,
      <<"public", " ", "class", " ", "M", "{", "2">>,
      <<"class", " ", "M", "{", "3">>,
      <<"public", "class", " ", "M", "{", "4">> }

\* the sources given to the analysis
AnalyzeSources ==
    { <<"def", "INDENT", "if", "INDENT", "while", "INDENT", "x",
        "DEDENT", "DEDENT", "DEDENT",
        "async def", "INDENT", "for", "INDENT", "x", "DEDENT", "DEDENT">>,
      <<"class", "INDENT", "x", "DEDENT", "try", "INDENT", "x", "DEDENT">>,
      <<"def", "x">> }

\* Texts given to parse_flake8_standard_output: up to MaxLines lines, each
\* ended by LF or CR LF.  "THIS" is a path without a colon, "C", ":", "THIS"
\* one with a drive letter.
MaxLines == 2
ReportLines ==
    { <<"THIS", ":", "1", ":", "2", ":", " ", "E1", " ", "m1", " ", "m1">>,
      <<"THIS", ":", "3", ":", "0", ":", " ", "W2">>,
      <<"C", ":", "THIS", ":", "1", ":", "2", ":", " ", "E1", " ", "m1">>,
      <<"THIS", ":", "1", ":", "x", ":", " ", "E1", " ", "m1">>,
      <<"x", ":", "y">>,
      <<" ">> }
RECURSIVE TextsOf(_)
TextsOf(n) ==
    IF n = 0 THEN { <<>> }
    ELSE TextsOf(n - 1)
           \cup { t \o l \o e : t \in TextsOf(n - 1), l \in ReportLines,
                               e \in { <<"LF">>, <<"CR", "LF">> } }

\* Problem statements given to classify_problem_type: up to MaxWords pieces
\* of text, each a word or a phrase as the user typed it.
MaxWords == 2
Pieces ==
    {"Binary search", "sorted", "reorder", "search", "Palindrome", "pair sum",
     "Fibonacci", "binary tree", "factorial"}

Tag(src) == IF src = <<>> THEN "0" ELSE src[Len(src)]

\* ----------------------------------------------------------------- decoding
\* bytes.decode('utf-8', errors='replace'): every invalid sequence becomes U+FFFD
DecodeReplace(b) == [i \in 1..Len(b) |-> IF b[i] = "BAD" THEN "RC" ELSE b[i]]

\* universal newlines of text-mode capture: "\r\n" and "\r" become "\n"
RECURSIVE TranslateNewlines(_)
TranslateNewlines(t) ==
    IF t = <<>> THEN <<>>
    ELSE IF Head(t) = "CR"
         THEN IF Len(t) >= 2 /\ t[2] = "LF"
              THEN <<"LF">> \o TranslateNewlines(Tail(Tail(t)))
              ELSE <<"LF">> \o TranslateNewlines(Tail(t))
         ELSE <<Head(t)>> \o TranslateNewlines(Tail(t))

\* subprocess.run(..., text=True, encoding='utf-8', errors='replace')
DecodeTextNoNewlines(b) == DecodeReplace(b)
DecodeText(b) == TranslateNewlines(DecodeReplace(b))

\* x.decode('utf-8', errors='replace') if x else ""
DecodeBytes(b) == IF b = <<>> THEN <<>> ELSE DecodeReplace(b)

Decode(mode, b) == IF mode = "text" THEN DecodeText(b) ELSE DecodeBytes(b)

\* ------------------------------------------------------------------ messages
TimeoutMsg == <<"Error: Code execution timed out (10 seconds limit)">>
ErrorPrefix == <<"Error: ">>
NodeMissingMsg == <<"Error: Node.js is not installed or not in PATH">>
JavaMissingMsg == <<"Error: Java is not installed or not in PATH">>
NoPublicClassMsg == <<"Error: No public class found in Java code">>
CompilationPrefix == <<"Compilation Error: ">>

\* str(e) of the exceptions the flows can meet
ExcMessage(e) == <<e>>

NoExc == "none"

\* ------------------------------------------------- public class extraction
\* re.search(r'public\s+class\s+(\w+)', code)
IsSpace(t) == t = " "
IsWord(t) == t \notin {" ", "{"}

RECURSIVE SkipSpaces(_, _)
SkipSpaces(code, i) ==
    IF i <= Len(code) /\ IsSpace(code[i]) THEN SkipSpaces(code, i + 1) ELSE i

RECURSIVE WordRun(_, _)
WordRun(code, i) ==
    IF i <= Len(code) /\ IsWord(code[i])
    THEN <<code[i]>> \o WordRun(code, i + 1)
    ELSE <<>>

\* the index of the class name when the pattern matches at index i, else 0
NameIndexAt(code, i) ==
    IF code[i] = "public" /\ i + 1 <= Len(code) /\ IsSpace(code[i + 1])
    THEN LET j == SkipSpaces(code, i + 1)
         IN  IF j + 1 <= Len(code) /\ code[j] = "class" /\ IsSpace(code[j + 1])
             THEN LET k == SkipSpaces(code, j + 1)
                  IN  IF k <= Len(code) /\ IsWord(code[k]) THEN k ELSE 0
             ELSE 0
    ELSE 0

MatchIndices(code) == {i \in 1..Len(code) : NameIndexAt(code, i) # 0}

ClassMatchLoose(code) ==
    \E i \in 1..Len(code) :
        code[i] = "class" /\ i + 1 <= Len(code) /\ IsSpace(code[i + 1])
ClassMatch(code) == MatchIndices(code) # {}

\* class_match.group(1) of the leftmost match
ClassName(code) ==
    IF MatchIndices(code) = {} THEN <<>>
    ELSE LET i == CHOOSE m \in MatchIndices(code) :
                      \A n \in MatchIndices(code) : m <= n
         IN  WordRun(code, NameIndexAt(code, i))

\* -------------------------------------------------------------------- state
VARIABLES
    calls,   \* per call: the locals of the running function and its outcome
    fs       \* the temp namespace: what exists at each path

vars == <<calls, fs>>

AiOps == {"generate_hint", "help_me_write", "generate_full_solution"}
\* the last three are functions that are also called on their own
Ops ==
    {"python", "javascript", "java", "analyze"} \cup AiOps
        \cup {"run_flake8_analysis", "parse_flake8_standard_output",
              "classify_problem_type"}

NoRes == [rc |-> -1, out |-> <<>>, err |-> <<>>]
NoRet == <<>>
NoEntry == [owner |-> 0, kind |-> "none", name |-> <<>>, content |-> <<>>, cls |-> <<>>]

\* results = {"lint_issues": [], "formatting_needed": False,
\*            "formatted_code": "", "complexity": {}}
NoLinter == [starts |-> 0, json |-> NoRes, text |-> NoRes]

InitialResults ==
    [ lint_issues |-> <<>>, formatting_needed |-> FALSE,
      formatted_code |-> <<>>, complexity |-> [k \in {} |-> 0] ]

IdleCall ==
    [ op |-> "none", code |-> <<>>, status |-> "idle", pc |-> "idle",
      stage |-> "none", mode |-> "text",
      temp |-> 0, class_name |-> <<>>,
      res |-> NoRes, ret |-> NoRet,
      \* history, read by the properties only
      exc |-> NoExc, excAt |-> "none", pending |-> NoExc,
      raw |-> NoRes, ran |-> <<>>, reads |-> <<>>,
      probeRc |-> -1, compileRc |-> -1,
      launches |-> [probe |-> 0, compile |-> 0, run |-> 0],
      timedOut |-> FALSE, made |-> 0, removed |-> 0, foreign |-> FALSE,
      \* the child of the invocation in progress is alive
      child |-> FALSE,
      \* analysis: the running step's local (issues / complexity_data), the
      \* results dict, and what the steps met (history)
      acc |-> <<>>, results |-> InitialResults,
      steps |-> <<>>,
      caught |-> [lint |-> NoExc, format |-> NoExc, complexity |-> NoExc],
      got |-> [black_diff |-> NoRes, black_format |-> NoRes,
               radon_cc |-> NoRes, radon_mi |-> NoRes],
      \* what handle_run_code showed for the call
      shown |-> "none",
      \* the lint step in progress (history): how often the linter was
      \* started, and what its two invocations gave
      linter |-> NoLinter,
      \* gpt_helper: the loop counter; and (history) whether the key is set,
      \* the library, the requests made, how each attempt ended, the
      \* content of the response that was returned
      retry_count |-> 0, hasKey |-> FALSE, lib |-> "none", requests |-> 0,
      log |-> <<>>, answer |-> <<>> ]

Init ==
    /\ calls = [c \in CallIds |-> IdleCall]
    /\ fs = [p \in Paths |-> NoEntry]

\* ------------------------------------------------------------ child outcomes
\* What a child can leave behind when it exits: exit status and the bytes on
\* its two pipes.  A program's output is made of its source's tag.
ExitCodes == {0, 1}
ProbeOutcomes == [rc : ExitCodes, out : {<<"v">>}, err : {<<>>}]
CompileOutcomes == [rc : ExitCodes, out : {<<>>}, err : {<<>>, <<"E", "BAD">>}]
OutBytes(src) == {Tag(src), "CR", "LF", "BAD"}
RunOutputs(src) == UNION {[1..n -> OutBytes(src)] : n \in 0..MaxOutLen}
RunOutcomes(src) == [rc : ExitCodes, out : RunOutputs(src), err : {<<>>, <<"E">>}]

Outcomes(stage, src) ==
    CASE stage = "probe" -> ProbeOutcomes
      [] stage = "compile" -> CompileOutcomes
      [] OTHER -> RunOutcomes(src)

\* the children of the concurrent runs: the runtime is there, the source
\* compiles, the program prints its tag and the output decodes
PlainOutcomes(stage, src) ==
    CASE stage = "probe" -> {[rc |-> 0, out |-> <<"v">>, err |-> <<>>]}
      [] stage = "compile" -> {[rc |-> 0, out |-> <<>>, err |-> <<>>]}
      [] OTHER -> {[rc |-> 0, out |-> <<Tag(src)>>, err |-> <<>>]}

\* ------------------------------------------------------- execute_*: helpers
SourcesOf(op) ==
    CASE op = "java" -> JavaSources
      [] op = "analyze" -> AnalyzeSources
      [] op = "run_flake8_analysis" -> {<<"def", "x">>}
      [] op = "parse_flake8_standard_output" -> TextsOf(MaxLines)
      [] op = "classify_problem_type" ->
            UNION {[1..n -> Pieces] : n \in 0..MaxWords}
      [] OTHER -> ScriptSources

ExecOps == {"python", "javascript", "java"}

\* concurrent calls are given distinct sources; the Java ones all declare
\* the same public class M
OwnSource(c, op) ==
    IF op = "java" THEN <<"public", " ", "class", " ", "M", "{", ToString(c)>>
    ELSE <<"print", ToString(c)>>

\* timeout=10 is passed to the compile and run invocations only
HasTimeout(op, stage) ==
    IF op = "analyze" THEN TRUE ELSE stage \in {"compile", "run"}

\* except subprocess.TimeoutExpired / except Exception as e
ExecCatchNarrow(e) ==
    IF e = "TimeoutExpired"
    THEN [status |-> "returned", ret |-> << <<>>, TimeoutMsg >>]
    ELSE IF e = "FileNotFoundError"
         THEN [status |-> "returned", ret |-> << <<>>, ErrorPrefix \o ExcMessage(e) >>]
         ELSE [status |-> "raised", ret |-> NoRet]
ExecCatchNoTimeoutClause(e) ==
    [status |-> "returned", ret |-> << <<>>, ErrorPrefix \o ExcMessage(e) >>]
ExecCatch(e) ==
    IF e = "TimeoutExpired"
    THEN [status |-> "returned", ret |-> << <<>>, TimeoutMsg >>]
    ELSE [status |-> "returned", ret |-> << <<>>, ErrorPrefix \o ExcMessage(e) >>]

\* the call record after exception e, raised at `at`, reached the handlers
Caught(cur, e, at) ==
    [cur EXCEPT !.exc = e, !.excAt = at, !.pc = "done",
                !.status = ExecCatch(e).status, !.ret = ExecCatch(e).ret]

Returned(cur, ret) == [cur EXCEPT !.pc = "done", !.status = "returned", !.ret = ret]

\* return result.stdout, result.stderr
NormalReturnSwapped(res) == <<res.err, res.out>>
NormalReturn(res) == <<res.out, res.err>>

MissingMsg(op) == IF op = "java" THEN JavaMissingMsg ELSE NodeMissingMsg

\* tempfile.NamedTemporaryFile / tempfile.mkdtemp: a name nothing exists at
AllocAnyPath(files) == Paths
AllocPaths(files) ==
    {p \in Paths : files[p].owner = 0
                   /\ \A q \in Paths : files[q].owner = 0 => p <= q}

\* ------------------------------------------------------- execute_*: actions
FirstPc(op) ==
    CASE op = "python" -> "create"
      [] op = "analyze" -> "an_create"
      [] op \in AiOps -> "ai_start"
      [] op = "run_flake8_analysis" -> "lint"
      [] op = "parse_flake8_standard_output" -> "parse"
      [] op = "classify_problem_type" -> "classify"
      [] OTHER -> "launch"

FirstStage(op) ==
    CASE op \in {"javascript", "java"} -> "probe"
      [] op = "run_flake8_analysis" -> "flake8_json"
      [] OTHER -> "none"

Started(op, code) ==
    [IdleCall EXCEPT !.op = op, !.code = code, !.status = "running",
                     !.pc = FirstPc(op), !.stage = FirstStage(op)]

\* the UI layer calls one of the four operations with a source text
Invoke(c) ==
    /\ calls[c].status = "idle"
    /\ \E op \in Ops : \E code \in SourcesOf(op) :
          calls' = [calls EXCEPT ![c] = Started(op, code)]
    /\ UNCHANGED fs

\* several sessions press "run" at once, each with its own source
InvokeConc(c) ==
    /\ calls[c].status = "idle"
    /\ \E op \in ExecOps :
          calls' = [calls EXCEPT ![c] = Started(op, OwnSource(c, op))]
    /\ UNCHANGED fs

\* what is written at the fresh path: a source file, or (Java) a directory
\* holding <class_name>.java
NewEntry(c, cur) ==
    [ owner |-> c,
      kind |-> IF cur.op = "java" THEN "dir" ELSE "file",
      name |-> IF cur.op = "java" THEN cur.class_name \o <<".java">> ELSE <<>>,
      content |-> cur.code,
      cls |-> <<>> ]

\* the artifact exists but f.write(code) raised before anything was written
EmptyEntry(c, cur) == [NewEntry(c, cur) EXCEPT !.name = <<>>, !.content = <<>>]

StageAfterCreate(op) == IF op = "java" THEN "compile" ELSE "run"

CreateTemp(c) ==
    LET cur == calls[c] IN
    /\ cur.pc = "create"
    /\ \/ /\ calls' = [calls EXCEPT ![c] = Caught(cur, "OSError", "create")]
          /\ UNCHANGED fs
       \/ \E p \in AllocPaths(fs) :
            LET made == [cur EXCEPT !.made = @ + 1,
                                    !.foreign = @ \/ fs[p].owner \notin {0, c}]
            IN  \/ /\ fs' = [fs EXCEPT ![p] = NewEntry(c, cur)]
                   /\ calls' = [calls EXCEPT ![c] =
                                  [made EXCEPT !.temp = p, !.pc = "launch", !.mode = "text",
                                               !.stage = StageAfterCreate(cur.op)]]
                \/ /\ fs' = [fs EXCEPT ![p] = EmptyEntry(c, cur)]
                   /\ calls' = [calls EXCEPT ![c] =
                                  Caught(made, "UnicodeEncodeError", "create")]

\* the source the child of this stage is given to read
Reads(cur) ==
    CASE cur.stage = "probe" -> <<>>
      [] cur.stage = "run" /\ cur.op = "java" -> fs[cur.temp].cls
      [] OTHER -> fs[cur.temp].content

\* subprocess.run starts the child, or fails to (binary not found)
Launch(c) ==
    LET cur == calls[c] IN
    /\ cur.pc = "launch"
    /\ \/ calls' = [calls EXCEPT ![c] = Caught(cur, "FileNotFoundError", cur.stage)]
       \/ calls' = [calls EXCEPT ![c] =
                      [cur EXCEPT !.pc = "wait", !.child = TRUE,
                                  !.launches[cur.stage] = @ + 1,
                                  !.ran = Reads(cur),
                                  !.foreign = @ \/ (cur.stage # "probe"
                                                    /\ fs[cur.temp].owner # c)]]
    /\ UNCHANGED fs

\* if node_check.returncode != 0 / java_check.returncode != 0, then class_match
AfterProbe(cur, r) ==
    LET seen == [cur EXCEPT !.probeRc = r.rc, !.res = r] IN
    IF r.rc # 0 THEN Returned(seen, << <<>>, MissingMsg(cur.op) >>)
    ELSE IF cur.op = "java" /\ ~ClassMatch(cur.code)
         THEN Returned(seen, << <<>>, NoPublicClassMsg >>)
         ELSE [seen EXCEPT !.pc = "create",
                           !.class_name = IF cur.op = "java" THEN ClassName(cur.code)
                                          ELSE <<>>]

\* if compile_result.returncode != 0: return "", f"Compilation Error: ..."
AfterCompileIgnoringStatus(cur, r) ==
    [cur EXCEPT !.compileRc = r.rc, !.res = r,
                !.pc = "launch", !.stage = "run", !.mode = "text"]
AfterCompile(cur, r) ==
    LET seen == [cur EXCEPT !.compileRc = r.rc, !.res = r] IN
    IF r.rc # 0 THEN Returned(seen, << <<>>, CompilationPrefix \o r.err >>)
    ELSE [seen EXCEPT !.pc = "launch", !.stage = "run", !.mode = "text"]

AfterRun(cur, r) == [cur EXCEPT !.res = r, !.pc = "cleanup"]

Continue(cur, r) ==
    CASE cur.stage = "probe" -> AfterProbe(cur, r)
      [] cur.stage = "compile" -> AfterCompile(cur, r)
      [] OTHER -> AfterRun(cur, r)

\* javac leaves <class_name>.class next to the source when it succeeds
ChildEffect(cur, o) ==
    IF cur.stage = "compile" /\ o.rc = 0 /\ fs[cur.temp].kind = "dir"
    THEN [fs EXCEPT ![cur.temp].cls = cur.ran]
    ELSE fs

\* the child exits within the time allowed; its output is captured in the
\* mode of this launch, or text-mode capture raises UnicodeDecodeError and
\* the same command is launched again in byte mode
ChildExitFrom(c, conc) ==
    LET cur == calls[c] IN
    /\ cur.pc = "wait"
    /\ cur.op # "analyze"
    /\ \E o \in IF conc THEN PlainOutcomes(cur.stage, cur.ran)
                  ELSE Outcomes(cur.stage, cur.ran) :
         /\ fs' = ChildEffect(cur, o)
         /\ \/ /\ cur.mode = "text"
               /\ ~conc
               /\ calls' = [calls EXCEPT ![c] =
                              [cur EXCEPT !.mode = "bytes", !.pc = "launch", !.raw = o,
                                          !.child = FALSE]]
            \/ calls' = [calls EXCEPT ![c] =
                           Continue([cur EXCEPT !.raw = o, !.child = FALSE],
                                    [rc |-> o.rc,
                                     out |-> Decode(cur.mode, o.out),
                                     err |-> Decode(cur.mode, o.err)])]

ChildExit(c) == ChildExitFrom(c, FALSE)
ChildExitConc(c) == ChildExitFrom(c, TRUE)

\* subprocess.run on TimeoutExpired (and on any other exception while it
\* waits): process.kill(), process.wait(), then the exception goes on
LeaveChild(cur) == cur
KillChild(cur) == [cur EXCEPT !.child = FALSE]

\* the 10 seconds pass first: subprocess.run kills the child and raises
\* TimeoutExpired
Timeout(c) ==
    LET cur == calls[c] IN
    /\ cur.pc = "wait"
    /\ cur.op # "analyze"
    /\ HasTimeout(cur.op, cur.stage)
    /\ calls' = [calls EXCEPT ![c] =
                   Caught(KillChild([cur EXCEPT !.timedOut = TRUE]),
                          "TimeoutExpired", cur.stage)]
    /\ UNCHANGED fs

\* os.unlink(temp_file) / shutil.rmtree(temp_dir), then the normal return
Cleanup(c) ==
    LET cur == calls[c] IN
    /\ cur.pc = "cleanup"
    /\ IF fs[cur.temp].owner = 0
       THEN /\ calls' = [calls EXCEPT ![c] = Caught(cur, "FileNotFoundError", "cleanup")]
            /\ UNCHANGED fs
       ELSE \/ /\ fs' = [fs EXCEPT ![cur.temp] = NoEntry]
               /\ calls' = [calls EXCEPT ![c] =
                              Returned([cur EXCEPT !.removed = @ + 1,
                                                   !.foreign = @ \/ fs[cur.temp].owner # c],
                                       NormalReturn(cur.res))]
            \/ /\ calls' = [calls EXCEPT ![c] = Caught(cur, "OSError", "cleanup")]
               /\ UNCHANGED fs

\* output, error = execute_...(code) ... if error: st.error("Code execution
\* completed with errors.") else: st.success("Code executed successfully!")
RunMessage(cur) ==
    IF cur.ret[2] # <<>> THEN "Code execution completed with errors."
    ELSE "Code executed successfully!"

\* handle_run_code, once the execute function it called has come back
handle_run_code(c) ==
    LET cur == calls[c] IN
    /\ cur.op \in ExecOps
    /\ cur.status = "returned"
    /\ cur.shown = "none"
    /\ calls' = [calls EXCEPT ![c] = [cur EXCEPT !.shown = RunMessage(cur)]]
    /\ UNCHANGED fs

\* --------------------------------------------------- analysis tools: texts
\* str.strip(): leading and trailing whitespace goes
IsBlank(t) == t \in {" ", "LF", "CR"}

RECURSIVE LStrip(_)
LStrip(t) == IF t # <<>> /\ IsBlank(Head(t)) THEN LStrip(Tail(t)) ELSE t

RECURSIVE RStrip(_)
RStrip(t) ==
    IF t # <<>> /\ IsBlank(t[Len(t)]) THEN RStrip(SubSeq(t, 1, Len(t) - 1)) ELSE t

Strip(t) == RStrip(LStrip(t))

\* str.split(sep, maxsplit); maxsplit = -1 is "no limit"
RECURSIVE Split(_, _, _)
Split(t, sep, maxsplit) ==
    LET at == {i \in 1..Len(t) : t[i] = sep} IN
    IF maxsplit = 0 \/ at = {} THEN <<t>>
    ELSE LET i == CHOOSE m \in at : \A n \in at : m <= n
         IN  <<SubSeq(t, 1, i - 1)>>
                 \o Split(SubSeq(t, i + 1, Len(t)), sep, maxsplit - 1)

\* int(s): surrounding whitespace and a sign are accepted, else ValueError
Digits == {"0", "1", "2", "3"}
DigitVal(t) == CASE t = "0" -> 0 [] t = "1" -> 1 [] t = "2" -> 2 [] OTHER -> 3

IsInt(s) ==
    LET t == Strip(s) IN
    \/ Len(t) = 1 /\ t[1] \in Digits
    \/ Len(t) = 2 /\ t[1] \in {"-", "+"} /\ t[2] \in Digits

IntOf(s) ==
    LET t == Strip(s) IN
    IF Len(t) = 1 THEN DigitVal(t[1])
    ELSE IF t[1] = "-" THEN 0 - DigitVal(t[2]) ELSE DigitVal(t[2])

\* ---------------------------------------------------- analysis tools: JSON
\* json.loads over tokens: "[" ... "]" is an array, "{" key value ... "}" an
\* object, a digit a number, a word a string; anything else is not JSON.
JsonStructure == {"[", "]", "{", "}"}
NotJson == {"BAD", "RC", ":", " ", "LF", "CR", "-", "+"}
IsAtom(t) == t \notin JsonStructure /\ t \notin NotJson

JsonFail == [ok |-> FALSE, type |-> "none", tok |-> "", keys |-> <<>>, items |-> <<>>, next |-> 0]
JsonAtom(t, n) == [ok |-> TRUE, type |-> IF t \in Digits THEN "number" ELSE "string",
                   tok |-> t, keys |-> <<>>, items |-> <<>>, next |-> n]
JsonList(items, n) == [ok |-> TRUE, type |-> "list", tok |-> "", keys |-> <<>>,
                       items |-> items, next |-> n]
JsonDict(keys, items, n) == [ok |-> TRUE, type |-> "dict", tok |-> "", keys |-> keys,
                             items |-> items, next |-> n]

RECURSIVE ParseValue(_, _), ParseItems(_, _, _), ParsePairs(_, _, _, _)
ParseValue(t, i) ==
    IF i > Len(t) THEN JsonFail
    ELSE IF t[i] = "[" THEN ParseItems(t, i + 1, <<>>)
    ELSE IF t[i] = "{" THEN ParsePairs(t, i + 1, <<>>, <<>>)
    ELSE IF IsAtom(t[i]) THEN JsonAtom(t[i], i + 1)
    ELSE JsonFail

ParseItems(t, i, items) ==
    IF i > Len(t) THEN JsonFail
    ELSE IF t[i] = "]" THEN JsonList(items, i + 1)
    ELSE LET v == ParseValue(t, i) IN
         IF v.ok THEN ParseItems(t, v.next, Append(items, v)) ELSE JsonFail

ParsePairs(t, i, keys, items) ==
    IF i > Len(t) THEN JsonFail
    ELSE IF t[i] = "}" THEN JsonDict(keys, items, i + 1)
    ELSE IF ~IsAtom(t[i]) \/ t[i] \in Digits THEN JsonFail
    ELSE LET v == ParseValue(t, i + 1) IN
         IF v.ok THEN ParsePairs(t, v.next, Append(keys, t[i]), Append(items, v))
         ELSE JsonFail

\* json.loads(text): the whole text is one value (whitespace around it is
\* allowed); .ok is FALSE where json.JSONDecodeError is raised
JsonLoads(text) ==
    LET t == Strip(text)
        v == ParseValue(t, 1)
    IN  IF v.ok /\ v.next = Len(t) + 1 THEN v ELSE JsonFail

\* key in d / d[key] / d.get(key, default) of a parsed object
HasKey(d, k) == \E i \in DOMAIN d.keys : d.keys[i] = k
Lookup(d, k) ==
    d.items[CHOOSE i \in DOMAIN d.keys :
                d.keys[i] = k /\ \A j \in DOMAIN d.keys : d.keys[j] = k => j <= i]

\* ------------------------------------------------ run_flake8_analysis: data
Issue(line, column, message, code) ==
    [line |-> line, column |-> column, message |-> message, code |-> code]

\* the three issues.append({... "line": 0, "column": 0 ...}) of the handlers
TimeoutSentinel == Issue(0, 0, <<"Flake8 analysis timed out">>, <<"TIMEOUT">>)
MissingSentinel ==
    Issue(0, 0, <<"Flake8 not installed. Install with: pip install flake8">>, <<"MISSING">>)
ErrorSentinel(e) ==
    Issue(0, 0, <<"Flake8 analysis failed: ">> \o ExcMessage(e), <<"ERROR">>)

FlakeSentinel(e) ==
    CASE e = "TimeoutExpired" -> TimeoutSentinel
      [] e = "FileNotFoundError" -> MissingSentinel
      [] OTHER -> ErrorSentinel(e)

\* the Python value of a parsed JSON scalar: a number, or a str
PyValue(v) == IF v.type = "number" THEN DigitVal(v.tok) ELSE <<v.tok>>

\* item.get(key, default) on a parsed JSON object
Get(item, key, default) ==
    IF HasKey(item, key) THEN PyValue(Lookup(item, key)) ELSE default

JsonIssueUnknownPosition(item) ==
    Issue(Get(item, "line_number", -1), Get(item, "column_number", -1),
          Get(item, "text", <<>>), Get(item, "code", <<>>))
JsonIssue(item) ==
    Issue(Get(item, "line_number", 0), Get(item, "column_number", 0),
          Get(item, "text", <<>>), Get(item, "code", <<>>))

\* for item in flake8_data: issues.append({... item.get(...) ...}); an
\* element that is no object has no .get (AttributeError) and what was
\* appended before it stays in the list
RECURSIVE AppendItems(_, _)
AppendItems(items, issues) ==
    IF items = <<>> THEN [issues |-> issues, exc |-> NoExc]
    ELSE IF Head(items).type = "dict"
         THEN AppendItems(Tail(items), Append(issues, JsonIssue(Head(items))))
         ELSE [issues |-> issues, exc |-> "AttributeError"]

\* what the loop does with each kind of JSON value: a number cannot be
\* iterated, a string yields characters and an object yields its keys
IterateIssues(v) ==
    CASE v.type = "list" -> AppendItems(v.items, <<>>)
      [] v.type = "number" -> [issues |-> <<>>, exc |-> "TypeError"]
      [] v.type = "dict" /\ v.keys = <<>> -> [issues |-> <<>>, exc |-> NoExc]
      [] OTHER -> [issues |-> <<>>, exc |-> "AttributeError"]

\* one line of parse_flake8_standard_output: <<issue>>, or <<>> when skipped
ParseLine(line) ==
    LET parts == Split(line, ":", 3) IN
    IF Strip(line) = <<>> \/ Len(parts) < 4 THEN <<>>
    ELSE IF ~IsInt(parts[2]) \/ ~IsInt(parts[3]) THEN <<>>
    ELSE LET message_parts == Split(Strip(parts[4]), " ", 1)
         IN  << Issue(IntOf(parts[2]), IntOf(parts[3]),
                      IF Len(message_parts) > 1 THEN message_parts[2]
                      ELSE Strip(parts[4]),
                      message_parts[1]) >>

RECURSIVE ParseLines(_)
ParseLines(lines) ==
    IF lines = <<>> THEN <<>>
    ELSE ParseLine(Head(lines)) \o ParseLines(Tail(lines))

parse_flake8_standard_output(output) == ParseLines(Split(Strip(output), "LF", -1))

\* if result.stdout: try json.loads ... except json.JSONDecodeError
StructuredIssues(out) ==
    IF out = <<>> THEN [issues |-> <<>>, exc |-> NoExc]
    ELSE IF JsonLoads(out).ok THEN IterateIssues(JsonLoads(out))
         ELSE [issues |-> parse_flake8_standard_output(out), exc |-> NoExc]

\* What the linter can print.  "THIS" stands for the path it was given.
Item1 == <<"{", "code", "E1", "line_number", "1", "column_number", "2", "text", "m1", "}">>
Item2 == <<"{", "code", "W2", "line_number", "3", "column_number", "0", "text", "m2", "}">>
Line1 == <<"THIS", ":", "1", ":", "2", ":", " ", "E1", " ", "m1", " ", "m1">>
Line2 == <<"THIS", ":", "3", ":", "0", ":", " ", "W2">>

FlakeJsonOuts ==
    { <<>>,
      <<"[", "]">>,
      <<"[">> \o Item1 \o <<"]", "LF">>,
      <<"[">> \o Item1 \o Item2 \o <<"]">>,
      <<"[">> \o Item1 \o <<"3", "]">>,
      <<"[", "{", "}", "]">>,
      <<"{", "THIS", "[">> \o Item1 \o <<"]", "}">>,
      <<"2">>,
      <<"json", "LF", "json", "LF">>,
      Line1 \o <<"CR", "LF">> \o Line2 \o <<"LF">>,
      <<"BAD", "LF">> }

FlakeTextOuts ==
    { <<>>,
      Line1 \o <<"LF">>,
      Line1 \o <<"LF", "x", ":", "y", "LF">> \o Line2 \o <<"LF">>,
      <<"THIS", ":", "1", ":", "BAD", ":", " ", "E1", "LF">> }

\* ------------------------------------------------- run_black_analysis: data
\* What the formatter can print for the source on its standard input.
BlackDiffOuts(code) == { <<>>, <<"LF">>, <<"@@", "LF">> \o code }
BlackFormatOuts(code) == { <<>>, <<"fmt">> \o code, <<"fmt", "BAD">> }

\* ------------------------------------------------- run_radon_analysis: data
\* a Python dict
EmptyDict == [k \in {} |-> 0]
Put(d, k, v) == (k :> v) @@ d
Update(d, other) == other @@ d

\* sum(complexities) / len(complexities): the quotient, kept as a fraction
Ratio(num, den) == [num |-> num, den |-> den]

RECURSIVE Sum(_)
Sum(s) == IF s = <<>> THEN 0 ELSE Head(s) + Sum(Tail(s))

Max(s) == CHOOSE m \in {s[i] : i \in DOMAIN s} : \A i \in DOMAIN s : s[i] <= m

\* bool(x) of a parsed JSON value
Truthy(v) ==
    CASE v.type = "list" -> v.items # <<>>
      [] v.type = "dict" -> v.keys # <<>>
      [] v.type = "number" -> DigitVal(v.tok) # 0
      [] OTHER -> TRUE

\* file_path in data: a key of an object, an element of an array, a
\* substring of a string; a number has no membership test (TypeError)
Contains(data, key) ==
    CASE data.type = "dict" -> HasKey(data, key)
      [] data.type = "list" ->
            \E i \in DOMAIN data.items :
                data.items[i].type = "string" /\ data.items[i].tok = key
      [] OTHER -> data.type = "string" /\ data.tok = key

\* [func.get('complexity', 0) for func in functions]
Complexities(functions) ==
    [i \in DOMAIN functions.items |-> Get(functions.items[i], "complexity", 0)]

\* the exception the comprehension meets, if any
ListingError(functions) ==
    CASE functions.type = "number" -> "TypeError"
      [] functions.type = "list"
         /\ \A i \in DOMAIN functions.items : functions.items[i].type = "dict" -> NoExc
      [] OTHER -> "AttributeError"

\* lines 294-306: the cyclomatic-complexity output goes into complexity_data
CcMetrics(functions) ==
    LET complexities == Complexities(functions) IN
    [ complexity |-> Ratio(Sum(complexities), Len(complexities)),
      max_complexity |-> Max(complexities),
      function_count |-> Len(functions.items) ]

RadonCc(r, data, key) ==
    LET cc_data == JsonLoads(r.out) IN
    IF r.rc # 0 \/ r.out = <<>> \/ ~cc_data.ok THEN [data |-> data, exc |-> NoExc]
    ELSE IF cc_data.type = "number" THEN [data |-> data, exc |-> "TypeError"]
    ELSE IF ~Contains(cc_data, key) THEN [data |-> data, exc |-> NoExc]
    ELSE IF cc_data.type # "dict" THEN [data |-> data, exc |-> "TypeError"]
    ELSE LET functions == Lookup(cc_data, key) IN
         IF ~Truthy(functions) THEN [data |-> data, exc |-> NoExc]
         ELSE IF ListingError(functions) # NoExc
              THEN [data |-> data, exc |-> ListingError(functions)]
              ELSE [data |-> Update(data, CcMetrics(functions)), exc |-> NoExc]

\* lines 329-335: the maintainability output
RadonMi(r, data, key) ==
    LET mi_data == JsonLoads(r.out) IN
    IF r.rc # 0 \/ r.out = <<>> \/ ~mi_data.ok THEN [data |-> data, exc |-> NoExc]
    ELSE IF mi_data.type = "number" THEN [data |-> data, exc |-> "TypeError"]
    ELSE IF ~Contains(mi_data, key) THEN [data |-> data, exc |-> NoExc]
    ELSE IF mi_data.type # "dict" THEN [data |-> data, exc |-> "TypeError"]
    ELSE IF Lookup(mi_data, key).type # "dict"
         THEN [data |-> data, exc |-> "AttributeError"]
         ELSE [data |-> Put(data, "maintainability", Get(Lookup(mi_data, key), "mi", 0)),
               exc |-> NoExc]

RadonTimeoutMsg == <<"Radon analysis timed out">>
RadonMissingMsg == <<"Radon not installed. Install with: pip install radon">>
RadonFailedPrefix == <<"Radon analysis failed: ">>

RadonError(e) ==
    CASE e = "TimeoutExpired" -> RadonTimeoutMsg
      [] e = "FileNotFoundError" -> RadonMissingMsg
      [] OTHER -> RadonFailedPrefix \o ExcMessage(e)

\* What the complexity tool can print.  "THIS" is the path it was given.
Func(c) == <<"{", "type", "function", "complexity", c, "}">>

RadonCcOuts ==
    { <<>>,
      <<"radon", ":", "BAD">>,
      <<"{", "THIS", "[", "]", "}">>,
      <<"{", "THIS", "[">> \o Func("2") \o <<"]", "}">>,
      <<"{", "THIS", "[">> \o Func("1") \o Func("3") \o <<"{", "type", "class", "}", "]", "}">>,
      <<"{", "THIS", "{", "error", "bad", "}", "}">>,
      <<"{", "OTHER", "[">> \o Func("1") \o <<"]", "}">> }

RadonMiOuts ==
    { <<>>,
      <<"{", "THIS", "{", "mi", "3", "rank", "A", "}", "}">>,
      <<"{", "THIS", "{", "error", "bad", "}", "}">>,
      <<"{", "THIS", "[", "]", "}">> }

\* ------------------------------------------------------- basic_ast_analysis
\* ast.parse over tokens: a compound statement is followed by its indented,
\* non-empty body; "x" is a simple statement.
Compound == {"def", "async def", "class", "if", "for", "while", "try"}

AstFail == [ok |-> FALSE, nodes |-> <<>>, next |-> 0]

RECURSIVE ParseBlock(_, _, _)
ParseBlock(t, i, nodes) ==
    IF i > Len(t) \/ t[i] = "DEDENT" THEN [ok |-> TRUE, nodes |-> nodes, next |-> i]
    ELSE IF t[i] = "x"
         THEN ParseBlock(t, i + 1, Append(nodes, [kind |-> "x", body |-> <<>>]))
    ELSE IF t[i] \in Compound /\ i + 1 <= Len(t) /\ t[i + 1] = "INDENT"
         THEN LET b == ParseBlock(t, i + 2, <<>>) IN
              IF b.ok /\ b.nodes # <<>> /\ b.next <= Len(t)
              THEN ParseBlock(t, b.next + 1,
                              Append(nodes, [kind |-> t[i], body |-> b.nodes]))
              ELSE AstFail
    ELSE AstFail

\* tree = ast.parse(code); .ok is FALSE where SyntaxError is raised
AstParse(code) ==
    LET p == ParseBlock(code, 1, <<>>) IN
    IF p.ok /\ p.next = Len(code) + 1 THEN p ELSE AstFail

\* only the statements directly in the module body
WalkTopLevel(nodes) == [i \in DOMAIN nodes |-> nodes[i].kind]

\* the node kinds that ast.walk(tree) yields: every node at every depth
RECURSIVE Walk(_)
Walk(nodes) ==
    IF nodes = <<>> THEN <<>>
    ELSE <<Head(nodes).kind>> \o Walk(Head(nodes).body) \o Walk(Tail(nodes))

\* len([node for node in ast.walk(tree) if isinstance(node, kinds)])
CountNodes(walk, kinds) == Cardinality({i \in DOMAIN walk : walk[i] \in kinds})

BasicFailedPrefix == <<"Basic AST analysis failed: ">>

BasicReport(walk) ==
    [ function_count |-> CountNodes(walk, {"def"}),
      class_count |-> CountNodes(walk, {"class"}),
      control_flow_count |-> CountNodes(walk, {"if", "for", "while", "try"}),
      estimated_complexity |-> CountNodes(walk, {"if", "for", "while", "try"})
                                  + CountNodes(walk, {"def"}),
      analysis_type |-> "basic_ast" ]

basic_ast_analysis(files, file_path) ==
    IF files[file_path].owner = 0
    THEN [error |-> BasicFailedPrefix \o ExcMessage("FileNotFoundError")]
    ELSE IF ~AstParse(files[file_path].content).ok
         THEN [error |-> BasicFailedPrefix \o ExcMessage("SyntaxError")]
         ELSE BasicReport(Walk(AstParse(files[file_path].content).nodes))

\* lines 344-349: if not complexity_data or 'error' in complexity_data
RadonFallbackAlways(data, files, file_path) ==
    Update(data, basic_ast_analysis(files, file_path))
RadonFallback(data, files, file_path) ==
    IF DOMAIN data = {} \/ "error" \in DOMAIN data
    THEN Update(data, basic_ast_analysis(files, file_path))
    ELSE data

\* ------------------------------------------------------ analyze_python_code
\* What leaves a step that catches `Exception`: nothing, or an exception that
\* is no subclass of Exception.
StepEscapes == {NoExc, "KeyboardInterrupt"}

\* what subprocess.run can raise before a child exists
LaunchErrors == {"FileNotFoundError", "PermissionError"}

\* the children of the analysis: exit status and the bytes on stdout
ToolOutcomes(stage, code) ==
    CASE stage = "flake8_json" -> [rc : ExitCodes, out : FlakeJsonOuts, err : {<<>>}]
      [] stage = "flake8_text" -> [rc : ExitCodes, out : FlakeTextOuts, err : {<<>>}]
      [] stage = "black_diff" ->
            [rc : {0}, out : BlackDiffOuts(code), err : {<<>>}]
                \cup [rc : {1}, out : {<<>>, <<"@@", "LF">> \o code}, err : {<<"E">>}]
      [] stage = "black_format" ->
            [rc : {0}, out : BlackFormatOuts(code), err : {<<>>}]
                \cup [rc : {1}, out : {<<>>, <<"fmt">> \o code}, err : {<<"E">>}]
      [] stage = "radon_cc" ->
            [rc : {0}, out : RadonCcOuts, err : {<<>>}]
                \cup [rc : {1}, out : {<<"{", "THIS", "[", "]", "}">>}, err : {<<"E">>}]
      [] OTHER ->
            [rc : {0}, out : RadonMiOuts, err : {<<>>}]
                \cup [rc : {1}, out : {<<>>}, err : {<<"E">>}]

FirstToolStage(pc) ==
    CASE pc = "lint" -> "flake8_json"
      [] pc = "format" -> "black_diff"
      [] OTHER -> "radon_cc"

\* a step function is entered: its locals are fresh; the lint and the
\* complexity step are given the path of the temp file, the format step the
\* source text itself
EnterStep(cur, pc, content) ==
    [cur EXCEPT !.pc = pc, !.stage = FirstToolStage(pc), !.mode = "text",
                !.linter = NoLinter,
                !.acc = IF pc = "complexity" THEN EmptyDict ELSE <<>>,
                !.steps = Append(@, pc),
                !.reads = IF pc = "format" THEN @ ELSE Append(@, cur.temp),
                !.ran = IF pc = "format" THEN cur.code ELSE content]

\* with tempfile.NamedTemporaryFile(..., delete=False) as temp_file: this is
\* before the try block, so what it raises goes to the caller
an_create(c) ==
    LET cur == calls[c] IN
    /\ cur.pc = "an_create"
    /\ \/ /\ calls' = [calls EXCEPT ![c] =
                         [cur EXCEPT !.exc = "OSError", !.excAt = "create",
                                     !.status = "raised", !.pc = "done"]]
          /\ UNCHANGED fs
       \/ \E p \in AllocPaths(fs) :
            LET made == [cur EXCEPT !.made = @ + 1, !.temp = p,
                                    !.foreign = @ \/ fs[p].owner \notin {0, c}]
            IN  \/ /\ fs' = [fs EXCEPT ![p] = NewEntry(c, cur)]
                   /\ calls' = [calls EXCEPT ![c] = EnterStep(made, "lint", cur.code)]
                \/ /\ fs' = [fs EXCEPT ![p] = EmptyEntry(c, cur)]
                   /\ calls' = [calls EXCEPT ![c] =
                                  [made EXCEPT !.exc = "UnicodeEncodeError",
                                               !.excAt = "create",
                                               !.status = "raised", !.pc = "done"]]

\* try: ... finally: an exception leaving a step goes through the finally block
UnwindWithoutFinally(cur, e) ==
    [cur EXCEPT !.exc = e, !.excAt = cur.pc, !.status = "raised", !.pc = "done"]
Unwind(cur, e) ==
    IF cur.op = "analyze"
    THEN [cur EXCEPT !.pending = e, !.excAt = cur.pc, !.pc = "an_cleanup"]
    ELSE UnwindWithoutFinally(cur, e)

\* return issues: to analyze_python_code, results["lint_issues"] =
\* run_flake8_analysis(temp_file_path), or to the caller of a direct call
LintReturn(cur, issues, files) ==
    IF cur.op = "analyze"
    THEN EnterStep([cur EXCEPT !.results.lint_issues = issues], "format",
                   files[cur.temp].content)
    ELSE Returned(cur, issues)

\* formatted_code, formatting_needed = run_black_analysis(code)
FormatReturn(cur, formatted_code, formatting_needed, files) ==
    EnterStep([cur EXCEPT !.results.formatted_code = formatted_code,
                          !.results.formatting_needed = formatting_needed],
              "complexity", files[cur.temp].content)

\* results["complexity"] = run_radon_analysis(temp_file_path)
ComplexityReturn(cur, complexity_data) ==
    [cur EXCEPT !.results.complexity = complexity_data,
                !.pc = "an_cleanup", !.stage = "none"]

\* the except clauses of the step that is running
FlakeCatchReraise(cur, e, files) == Unwind(cur, e)
FlakeCatch(cur, e, files) == LintReturn(cur, Append(cur.acc, FlakeSentinel(e)), files)

BlackCatchKeepsNeeded(cur, e, files) ==
    FormatReturn(cur, cur.code, cur.stage = "black_format", files)
BlackCatch(cur, e, files) == FormatReturn(cur, cur.code, FALSE, files)

RadonCatch(cur, e, files) ==
    ComplexityReturn(cur, RadonFallback(Put(cur.acc, "error", RadonError(e)),
                                        files, cur.temp))

StepCatch(cur, e, files) ==
    LET seen == [cur EXCEPT !.caught[cur.pc] = e] IN
    CASE cur.pc = "lint" -> FlakeCatch(seen, e, files)
      [] cur.pc = "format" -> BlackCatch(seen, e, files)
      [] OTHER -> RadonCatch(seen, e, files)

NextInvocation(cur, stage) == [cur EXCEPT !.stage = stage, !.mode = "text"]

\* lines 93-129 of run_flake8_analysis, after the first invocation
AfterFlakeJson(cur, r, files) ==
    LET s == StructuredIssues(r.out) IN
    IF s.exc # NoExc THEN StepCatch([cur EXCEPT !.acc = s.issues], s.exc, files)
    ELSE IF s.issues = <<>> /\ r.rc # 0 THEN NextInvocation(cur, "flake8_text")
    ELSE LintReturn(cur, s.issues, files)

AfterFlakeText(cur, r, files) ==
    LintReturn(cur, parse_flake8_standard_output(r.out), files)

\* formatting_needed = bool(result.stdout.strip())
AfterBlackDiff(cur, r, files) ==
    IF Strip(r.out) # <<>> THEN NextInvocation(cur, "black_format")
    ELSE FormatReturn(cur, cur.code, FALSE, files)

\* formatted_code = format_result.stdout if format_result.returncode == 0 else code
AfterBlackFormatAnyStatus(cur, r, files) == FormatReturn(cur, r.out, TRUE, files)
AfterBlackFormat(cur, r, files) ==
    FormatReturn(cur, IF r.rc = 0 THEN r.out ELSE cur.code, TRUE, files)

AfterRadonCc(cur, r, files) ==
    LET m == RadonCc(r, cur.acc, "THIS") IN
    IF m.exc # NoExc THEN StepCatch(cur, m.exc, files)
    ELSE NextInvocation([cur EXCEPT !.acc = m.data], "radon_mi")

AfterRadonMi(cur, r, files) ==
    LET m == RadonMi(r, cur.acc, "THIS") IN
    IF m.exc # NoExc THEN StepCatch(cur, m.exc, files)
    ELSE ComplexityReturn(cur, RadonFallback(m.data, files, cur.temp))

ToolContinue(cur, r, files) ==
    CASE cur.stage = "flake8_json" -> AfterFlakeJson(cur, r, files)
      [] cur.stage = "flake8_text" -> AfterFlakeText(cur, r, files)
      [] cur.stage = "black_diff" -> AfterBlackDiff(cur, r, files)
      [] cur.stage = "black_format" -> AfterBlackFormat(cur, r, files)
      [] cur.stage = "radon_cc" -> AfterRadonCc(cur, r, files)
      [] OTHER -> AfterRadonMi(cur, r, files)

\* the result of the invocations that the reports are read from
Remember(cur, r) ==
    CASE cur.stage \in DOMAIN cur.got -> [cur EXCEPT !.got[cur.stage] = r]
      [] cur.stage = "flake8_json" -> [cur EXCEPT !.linter.json = r]
      [] OTHER -> [cur EXCEPT !.linter.text = r]

\* subprocess.run has started the tool; the linter's starts are counted
Started1(cur) ==
    [cur EXCEPT !.child = TRUE,
                !.linter.starts = IF cur.pc = "lint" THEN @ + 1 ELSE @]

\* One subprocess.run(..., timeout=30) of the step that is running.  With no
\* child: the launch, or its failure.  With a child: it exits and its output
\* is captured (or text-mode capture raises UnicodeDecodeError and the same
\* command is run again in byte mode), or the 30 seconds pass and the child
\* is killed, or an interrupt arrives and the child is killed.
ToolStep(c, pc) ==
    LET cur == calls[c] IN
    /\ cur.pc = pc
    /\ UNCHANGED fs
    /\ IF ~cur.child
       THEN \/ \E e \in LaunchErrors :
                 calls' = [calls EXCEPT ![c] = StepCatch(cur, e, fs)]
            \/ calls' = [calls EXCEPT ![c] = Started1(cur)]
       ELSE \/ \E o \in ToolOutcomes(cur.stage, cur.code) :
                 \/ /\ cur.mode = "text"
                    /\ calls' = [calls EXCEPT ![c] =
                                   [cur EXCEPT !.child = FALSE, !.mode = "bytes"]]
                 \/ LET r == [rc |-> o.rc, out |-> Decode(cur.mode, o.out),
                              err |-> Decode(cur.mode, o.err)]
                    IN  calls' = [calls EXCEPT ![c] =
                                    ToolContinue(Remember([cur EXCEPT !.child = FALSE], r),
                                                 r, fs)]
            \/ calls' = [calls EXCEPT ![c] =
                           StepCatch(KillChild(cur), "TimeoutExpired", fs)]
            \/ \E e \in StepEscapes \ {NoExc} :
                 calls' = [calls EXCEPT ![c] = Unwind(KillChild(cur), e)]

run_flake8_analysis(c) == ToolStep(c, "lint")

run_black_analysis(c) == ToolStep(c, "format")

run_radon_analysis(c) == ToolStep(c, "complexity")

\* a direct call of parse_flake8_standard_output(output)
parse_call(c) ==
    LET cur == calls[c] IN
    /\ cur.pc = "parse"
    /\ calls' = [calls EXCEPT ![c] =
                   Returned(cur, parse_flake8_standard_output(cur.code))]
    /\ UNCHANGED fs

\* ------------------------------------------------- classify_problem_type
\* problem_statement.lower() and `term in problem_lower`: the terms of the
\* categories that are substrings of a piece in lower case
TermsIn(piece) ==
    CASE piece = "Binary search" -> {"binary search", "search"}
      [] piece = "sorted" -> {"sort"}
      [] piece = "reorder" -> {"order"}
      [] piece = "search" -> {"search"}
      [] piece = "Palindrome" -> {"palindrome"}
      [] piece = "pair sum" -> {"pair sum"}
      [] piece = "Fibonacci" -> {"fibonacci"}
      [] piece = "binary tree" -> {"tree", "binary tree"}
      [] OTHER -> {}

TermsOf(problem_statement) ==
    UNION {TermsIn(problem_statement[i]) : i \in DOMAIN problem_statement}

\* the if / elif chain, in its order: the name returned and the terms tried
Categories ==
    << [name |-> "palindrome", terms |-> {"palindrome", "mirror", "reads the same"}],
       [name |-> "two sum",
        terms |-> {"two sum", "pair sum", "find two numbers", "sum to target"}],
       [name |-> "fibonacci", terms |-> {"fibonacci", "sequence of numbers"}],
       [name |-> "sorting", terms |-> {"sort", "arrange", "order"}],
       [name |-> "binary search", terms |-> {"binary search"}],
       [name |-> "searching", terms |-> {"search", "find element", "locate"}],
       [name |-> "tree", terms |-> {"tree", "binary tree", "node"}],
       [name |-> "graph", terms |-> {"graph", "vertex", "edge", "connection"}],
       [name |-> "dynamic_programming",
        terms |-> {"dynamic programming", "dp", "optimal substructure"}],
       [name |-> "recursion", terms |-> {"recursion", "recursive"}],
       [name |-> "string", terms |-> {"string", "substring", "text"}],
       [name |-> "array_manipulation", terms |-> {"array", "list", "elements"}] >>

classify_problem_type(problem_statement) ==
    LET hits == {i \in DOMAIN Categories :
                    Categories[i].terms \cap TermsOf(problem_statement) # {}}
    IN  IF hits = {} THEN <<"general">>
        ELSE <<Categories[CHOOSE i \in hits : \A j \in hits : i <= j].name>>

\* a direct call of classify_problem_type(problem_statement)
classify_call(c) ==
    LET cur == calls[c] IN
    /\ cur.pc = "classify"
    /\ calls' = [calls EXCEPT ![c] = Returned(cur, classify_problem_type(cur.code))]
    /\ UNCHANGED fs

\* the call's end once the finally block is through: the pending exception
\* goes on to the caller, else `return results`
AnalyzeEnd(cur) ==
    IF cur.pending # NoExc
    THEN [cur EXCEPT !.exc = cur.pending, !.status = "raised", !.pc = "done"]
    ELSE [cur EXCEPT !.status = "returned", !.pc = "done"]

\* finally: if os.path.exists(temp_file_path): os.unlink(temp_file_path)
an_cleanup(c) ==
    LET cur == calls[c] IN
    /\ cur.pc = "an_cleanup"
    /\ IF fs[cur.temp].owner = 0
       THEN /\ calls' = [calls EXCEPT ![c] = AnalyzeEnd(cur)]
            /\ UNCHANGED fs
       ELSE \/ /\ fs' = [fs EXCEPT ![cur.temp] = NoEntry]
               /\ calls' = [calls EXCEPT ![c] =
                              AnalyzeEnd([cur EXCEPT !.removed = @ + 1,
                                                     !.foreign = @ \/ fs[cur.temp].owner # c])]
            \/ /\ calls' = [calls EXCEPT ![c] =
                              [cur EXCEPT !.exc = "OSError", !.excAt = "cleanup",
                                          !.status = "raised", !.pc = "done"]]
               /\ UNCHANGED fs

\* --------------------------------------------------------------- gpt_helper
\* generate_hint, help_me_write and generate_full_solution share one flow:
\* without OPENAI_API_KEY the fallback text; else the client is made and the
\* chat completion is requested in a retry loop.
max_retries == 2

\* if retry_count > max_retries: break / while retry_count <= max_retries
ExhaustedLate(retry_count) == retry_count > max_retries + 1
Exhausted(retry_count) == retry_count > max_retries

\* the library the process has: openai >= 1.0 (from openai import OpenAI
\* works, openai.ChatCompletion is gone) or the older one (ImportError: the
\* client is the module itself, which has no attribute `chat`)
Libraries == {"v1", "legacy"}

\* response.choices[0].message.content of attempt n: a text, or None
AttemptName(n) == CASE n = 1 -> "a1" [] n = 2 -> "a2" [] n = 3 -> "a3" [] OTHER -> "a4"
Contents(n) == { <<AttemptName(n)>>, <<" ", AttemptName(n), "LF">> }
None == <<"None">>

\* what one request can come to: a response with a text, a response whose
\* content is None, or an exception of the API
Replies(n) ==
    [kind : {"text"}, content : Contents(n)]
        \cup [kind : {"none", "error"}, content : {None}]

\* generate_fallback_hint / generate_fallback_code_help /
\* generate_fallback_full_solution
Fallback(op) == <<"fallback of ", op>>

\* except Exception as e: print(...); return generate_fallback_...(...)
AiCatchReraise(cur, e, at) ==
    [cur EXCEPT !.exc = e, !.excAt = at, !.pc = "done", !.status = "raised"]
AiCatch(cur, e, at) ==
    Returned([cur EXCEPT !.exc = e, !.excAt = at], Fallback(cur.op))

\* if not os.getenv("OPENAI_API_KEY"): return the fallback; try: client =
\* get_openai_client() ... (what raises before the loop ends in the outer
\* except: the fallback).  Building the prompt runs analyze_python_code on
\* the current code inside `try ... except Exception: pass`: its result goes
\* into the prompt only, and when it fails to delete its temp file, the file
\* stays.
ai_start(c) ==
    LET cur == calls[c] IN
    /\ cur.pc = "ai_start"
    /\ \/ /\ calls' = [calls EXCEPT ![c] = Returned(cur, Fallback(cur.op))]
          /\ UNCHANGED fs
       \/ /\ calls' = [calls EXCEPT ![c] =
                         AiCatch([cur EXCEPT !.hasKey = TRUE], "ValueError", "client")]
          /\ UNCHANGED fs
       \/ /\ \E lib \in Libraries :
               calls' = [calls EXCEPT ![c] =
                           [cur EXCEPT !.hasKey = TRUE, !.lib = lib, !.pc = "ai_attempt"]]
          /\ \/ UNCHANGED fs
             \/ \E p \in AllocPaths(fs) : fs' = [fs EXCEPT ![p] = NewEntry(c, cur)]

\* return response.choices[0].message.content.strip()
Answered(cur, content) ==
    Returned([cur EXCEPT !.log = Append(@, "ok"), !.answer = content], Strip(content))

\* last_error = e; retry_count += 1; if retry_count > max_retries: break;
\* after the loop: return the fallback
Failed(cur) ==
    LET after == [cur EXCEPT !.log = Append(@, "fail"), !.retry_count = @ + 1] IN
    IF Exhausted(after.retry_count) THEN Returned(after, Fallback(cur.op)) ELSE after

\* response = client.chat.completions.create(...) and .content.strip().
\* openai >= 1.0: the request is made; a content of None has no .strip
\* (AttributeError).  Older library: the module has no attribute `chat`, so
\* AttributeError is raised before any request.
NewApi(lib, reply) ==
    IF lib = "legacy" THEN [request |-> 0, result |-> "AttributeError"]
    ELSE [request |-> 1,
          result |-> CASE reply.kind = "text" -> "text"
                       [] reply.kind = "none" -> "AttributeError"
                       [] OTHER -> "Exception"]

\* except AttributeError: response = openai.ChatCompletion.create(...).
\* Older library: the request is made.  openai >= 1.0: the name is a stub
\* that raises when it is touched, so no request is made.
OldApi(lib, reply) ==
    IF lib = "v1" THEN [request |-> 0, result |-> "Exception"]
    ELSE [request |-> 1,
          result |-> IF reply.kind = "text" THEN "text" ELSE "Exception"]

\* One pass of the while loop: the new API, the old one if that raised
\* AttributeError; a text is returned, anything else counts as a failure.
ai_attempt(c) ==
    LET cur == calls[c] IN
    /\ cur.pc = "ai_attempt"
    /\ UNCHANGED fs
    /\ \E reply \in Replies(cur.retry_count + 1) :
         LET first == NewApi(cur.lib, reply)
             second == OldApi(cur.lib, reply)
             viaOld == first.result = "AttributeError"
             asked == [cur EXCEPT !.requests =
                          @ + first.request + (IF viaOld THEN second.request ELSE 0)]
         IN  calls' = [calls EXCEPT ![c] =
                         IF first.result = "text" \/ (viaOld /\ second.result = "text")
                         THEN Answered(asked, reply.content)
                         ELSE Failed(asked)]

\* One request at a time (the single logical flow of a session): the caller
\* issues one operation and blocks until it returns.
Caller == CHOOSE c \in CallIds : \A d \in CallIds : c <= d

Next ==
    \/ Invoke(Caller)
    \/ CreateTemp(Caller)
    \/ Launch(Caller)
    \/ ChildExit(Caller)
    \/ Timeout(Caller)
    \/ Cleanup(Caller)
    \/ handle_run_code(Caller)
    \/ an_create(Caller)
    \/ run_flake8_analysis(Caller)
    \/ run_black_analysis(Caller)
    \/ run_radon_analysis(Caller)
    \/ an_cleanup(Caller)
    \/ parse_call(Caller)
    \/ classify_call(Caller)
    \/ ai_start(Caller)
    \/ ai_attempt(Caller)

Spec == Init /\ [][Next]_vars

\* Execute calls of several sessions in flight together, interleaved step by
\* step over the one temp namespace.
NextConc ==
    \E c \in CallIds :
        \/ InvokeConc(c)
        \/ CreateTemp(c)
        \/ Launch(c)
        \/ ChildExitConc(c)
        \/ Timeout(c)
        \/ Cleanup(c)

ConcSpec == Init /\ [][NextConc]_vars

\* ================================================================ properties
Range(t) == {t[i] : i \in DOMAIN t}
IsText(t) == "BAD" \notin Range(t)
IsExec(c) == calls[c].op \in ExecOps
Owned(c) == {p \in Paths : fs[p].owner = c}

\* C1: after an execute call has returned (normally, on a timeout, on a Java
\* compile failure or on an internal exception after the artifact was made)
\* nothing it created still exists and the artifact was deleted exactly once.
C1_NoArtifactAfterReturn ==
    \A c \in CallIds :
        (IsExec(c) /\ calls[c].status = "returned")
            => /\ Owned(c) = {}
               /\ calls[c].made >= 1 => calls[c].removed = 1

\* C2: the execute functions never raise to the caller; they return a pair of
\* two fully decoded texts, and an unexpected exception e is reported as
\* ("", "Error: " + str(e)).
C2_NeverRaises ==
    \A c \in CallIds :
        IsExec(c) =>
            /\ calls[c].status # "raised"
            /\ calls[c].status = "returned" =>
                  /\ Len(calls[c].ret) = 2
                  /\ IsText(calls[c].ret[1]) /\ IsText(calls[c].ret[2])
                  /\ calls[c].exc \notin {NoExc, "TimeoutExpired"} =>
                        calls[c].ret = << <<>>, ErrorPrefix \o ExcMessage(calls[c].exc) >>

\* an exception raised by the cleanup itself, after a run whose output held
\* an invalid byte sequence, came back as the error pair
C2_Witness ==
    \E c \in CallIds :
        /\ IsExec(c) /\ calls[c].status = "returned"
        /\ calls[c].exc = "OSError" /\ calls[c].excAt = "cleanup"
        /\ ~IsText(calls[c].raw.out)

\* C3: every execute call eventually returns whatever its children do:
\* whenever the call waits for a child (probe, compiler or program), the
\* timeout can end the wait.
C3_EveryWaitHasTimeout ==
    \A c \in CallIds :
        (IsExec(c) /\ calls[c].pc = "wait") => ENABLED Timeout(c)

\* C4: when a timeout-guarded child invocation times out, the call returns
\* exactly ("", the fixed timeout message); no captured output is in it.
C4_TimeoutResult ==
    \A c \in CallIds :
        (IsExec(c) /\ calls[c].timedOut) =>
            /\ calls[c].status = "returned"
            /\ calls[c].ret = << <<>>, TimeoutMsg >>

\* the Java program timed out after a compiler run that had written to stderr
C4_Witness ==
    \E c \in CallIds :
        /\ calls[c].op = "java" /\ calls[c].timedOut /\ calls[c].excAt = "run"
        /\ calls[c].status = "returned"
        /\ calls[c].compileRc = 0 /\ calls[c].res.err # <<>>

\* the program of call c ran to its end in the launch that produced the
\* result: it wrote the text raw.out, nothing to stderr, and exited 0; the
\* harness met no error of its own
RanCleanly(c) ==
    /\ IsExec(c) /\ calls[c].status = "returned" /\ calls[c].stage = "run"
    /\ calls[c].exc = NoExc
    /\ calls[c].raw.rc = 0 /\ calls[c].raw.err = <<>> /\ IsText(calls[c].raw.out)

DeclaresPublicClass(code) ==
    \E i, j, k \in 1..Len(code) :
        /\ i + 1 < j /\ j + 1 < k
        /\ code[i] = "public" /\ code[j] = "class" /\ IsWord(code[k])
        /\ \A m \in (i + 1)..(j - 1) : code[m] = " "
        /\ \A m \in (j + 1)..(k - 1) : code[m] = " "

NothingBuilt(c) ==
    /\ calls[c].made = 0 /\ Owned(c) = {}
    /\ calls[c].launches.compile = 0 /\ calls[c].launches.run = 0

\* C6 (as claimed): for every Java source without a public class declaration
\* execute_java_code returns ("", "Error: No public class found in Java
\* code"), before any compiler invocation and before any artifact is made.
C6_NoPublicClassAlways ==
    \A c \in CallIds :
        (calls[c].op = "java" /\ ~DeclaresPublicClass(calls[c].code)) =>
            /\ NothingBuilt(c)
            /\ calls[c].status = "returned" =>
                  calls[c].ret = << <<>>, NoPublicClassMsg >>

\* C6 (amended): the same, when the runtime probe `java --version` has exited
\* with status 0; nothing is compiled or created in any case.
C6_NoPublicClassAfterProbe ==
    \A c \in CallIds :
        (calls[c].op = "java" /\ ~DeclaresPublicClass(calls[c].code)) =>
            /\ NothingBuilt(c)
            /\ (calls[c].status = "returned" /\ calls[c].probeRc = 0) =>
                  calls[c].ret = << <<>>, NoPublicClassMsg >>

\* a source whose `public` and `class` are not separated by whitespace was
\* turned down after a successful probe
C6_Witness ==
    \E c \in CallIds :
        /\ calls[c].op = "java" /\ calls[c].status = "returned"
        /\ calls[c].probeRc = 0
        /\ Len(calls[c].code) >= 2
        /\ calls[c].code[1] = "public" /\ calls[c].code[2] = "class"
        /\ calls[c].ret = << <<>>, NoPublicClassMsg >>

\* C7: the compiled class is run only after the compiler exited with status
\* 0 in the same call; on a non-zero compiler exit the call returns
\* ("", "Compilation Error: " + compiler stderr) and no run is started.
C7_RunOnlyAfterCompile ==
    \A c \in CallIds :
        calls[c].op = "java" =>
            /\ calls[c].launches.run > 0 =>
                  (calls[c].launches.compile > 0 /\ calls[c].compileRc = 0)
            /\ calls[c].compileRc > 0 =>
                  /\ calls[c].launches.run = 0
                  /\ calls[c].status = "returned"
                  /\ calls[c].ret = << <<>>, CompilationPrefix \o calls[c].res.err >>
                  /\ calls[c].res.err = Decode(calls[c].mode, calls[c].raw.err)

\* the compiler failed with a message on stderr
C7_Witness ==
    \E c \in CallIds :
        /\ calls[c].op = "java" /\ calls[c].status = "returned"
        /\ calls[c].compileRc > 0 /\ calls[c].raw.err # <<>>
        /\ calls[c].ret[2] = CompilationPrefix \o <<"E", "RC">>

\* the probe could not be started, or exited non-zero
Unreachable(c) ==
    \/ calls[c].exc = "FileNotFoundError" /\ calls[c].excAt = "probe"
    \/ calls[c].probeRc > 0

\* C8: when the runtime is unreachable (binary absent, or the version probe
\* exits non-zero) execute_javascript_code / execute_java_code return
\* ("", tool-missing message), create nothing and launch nothing else.
C8_ToolMissingMessage ==
    \A c \in CallIds :
        (calls[c].op \in {"javascript", "java"} /\ calls[c].status = "returned"
            /\ Unreachable(c)) =>
            /\ calls[c].ret = << <<>>, MissingMsg(calls[c].op) >>
            /\ NothingBuilt(c)

Live(c) == calls[c].status = "running" /\ calls[c].temp # 0

\* C9: concurrent execute calls use pairwise distinct artifact paths, no call
\* reads, overwrites or deletes another call's artifact, and each result
\* comes from the call's own source only.
C9_NoCrossTalk ==
    /\ \A c, d \in CallIds :
          (c # d /\ Live(c) /\ Live(d)) => calls[c].temp # calls[d].temp
    /\ \A c \in CallIds :
          /\ ~calls[c].foreign
          /\ Live(c) => /\ fs[calls[c].temp].owner = c
                        /\ fs[calls[c].temp].content = calls[c].code
          /\ calls[c].ran \in {<<>>, calls[c].code}
          /\ (calls[c].status = "returned" /\ calls[c].exc = NoExc) =>
                calls[c].ret = << <<Tag(calls[c].code)>>, <<>> >>

\* two Java calls declaring the same class are both running their program
C9_Witness ==
    \E c, d \in CallIds :
        /\ c # d
        /\ calls[c].op = "java" /\ calls[d].op = "java"
        /\ calls[c].class_name = calls[d].class_name
        /\ calls[c].pc = "wait" /\ calls[c].stage = "run"
        /\ calls[d].pc = "wait" /\ calls[d].stage = "run"

\* C10: in analyze_python_code the temp file is created once before the
\* first step, exists through the lint and complexity steps (both are given
\* its path), and is deleted once after them; when the call has ended, by a
\* return or by an exception leaving one of the three steps, it is gone.
C10_TempFileLifecycle ==
    \A c \in CallIds :
        calls[c].op = "analyze" =>
            /\ calls[c].pc \in {"lint", "format", "complexity", "an_cleanup"} =>
                  /\ calls[c].made = 1 /\ calls[c].removed = 0
                  /\ fs[calls[c].temp].owner = c
                  /\ fs[calls[c].temp].content = calls[c].code
            /\ \A i \in DOMAIN calls[c].reads : calls[c].reads[i] = calls[c].temp
            /\ calls[c].status = "returned" =>
                  (Len(calls[c].reads) = 2 /\ calls[c].ran = calls[c].code)
            /\ (calls[c].pc = "done" /\ calls[c].excAt \notin {"create", "cleanup"}) =>
                  /\ calls[c].made = 1 /\ calls[c].removed = 1
                  /\ Owned(c) = {}

\* an exception left the lint step and the file was deleted on the way out
C10_Witness ==
    \E c \in CallIds :
        /\ calls[c].op = "analyze" /\ calls[c].status = "raised"
        /\ calls[c].excAt = "lint" /\ calls[c].removed = 1 /\ Owned(c) = {}

IsAnalyze(c) == calls[c].op = "analyze"
IsLint(c) == calls[c].op = "run_flake8_analysis"
ResultFields == {"lint_issues", "formatting_needed", "formatted_code", "complexity"}

\* C11: analyze_python_code is total: whatever the creation of the temp
\* file, the three tools and the cleanup do, the call never raises to its
\* caller, and what it returns holds the four fields lint_issues,
\* formatting_needed, formatted_code and complexity.
C11_AnalyzeNeverRaises ==
    \A c \in CallIds :
        IsAnalyze(c) =>
            /\ calls[c].status # "raised"
            /\ calls[c].status = "returned" => DOMAIN calls[c].results = ResultFields

StepOrder == <<"lint", "format", "complexity">>
IsPrefix(s, t) == Len(s) <= Len(t) /\ \A i \in DOMAIN s : s[i] = t[i]

\* no interrupt is on its way out of the call
NothingPending(c) == calls[c].pending \notin (StepEscapes \ {NoExc})

\* the steps are entered in the order lint, format, complexity, each once,
\* and a call that is past its steps has been through all three
StepsInOrder ==
    \A c \in CallIds :
        IsAnalyze(c) =>
            /\ IsPrefix(calls[c].steps, StepOrder)
            /\ (calls[c].pc \in {"an_cleanup", "done"} /\ calls[c].excAt # "create"
                /\ NothingPending(c)) => calls[c].steps = StepOrder

\* a step writes its own sub-report and no other
OwnReportOnly ==
    \A c \in CallIds :
        IsAnalyze(c) =>
            /\ calls[c].pc # "lint" =>
                  calls'[c].results.lint_issues = calls[c].results.lint_issues
            /\ calls[c].pc # "format" =>
                  /\ calls'[c].results.formatting_needed = calls[c].results.formatting_needed
                  /\ calls'[c].results.formatted_code = calls[c].results.formatted_code
            /\ calls[c].pc # "complexity" =>
                  calls'[c].results.complexity = calls[c].results.complexity

\* C12: whatever the lint, format and complexity tools do (succeed, are
\* missing, time out, raise), analyze_python_code runs all three steps in the
\* order lint, format check, complexity; a failed step does not keep a later
\* one from running, and each sub-report is written by its own step only.
C12_AllStepsInOrder == []StepsInOrder /\ [][OwnReportOnly]_vars

\* all three steps ran although the linter was missing and the formatter
\* timed out, and the complexity tool then reported metrics
C12_Witness ==
    \E c \in CallIds :
        /\ IsAnalyze(c) /\ calls[c].status = "returned"
        /\ calls[c].caught.lint = "FileNotFoundError"
        /\ calls[c].caught.format = "TimeoutExpired"
        /\ calls[c].caught.complexity = NoExc
        /\ calls[c].steps = StepOrder
        /\ "max_complexity" \in DOMAIN calls[c].results.complexity

\* the lint step of call c is over
LintDone(c) == IsAnalyze(c) /\ Len(calls[c].steps) >= 2

\* C13: when the lint step ended in a harness failure (linter missing, an
\* invocation timed out, any other exception), lint_issues is exactly one
\* issue, the sentinel of that failure (line 0, column 0, code MISSING,
\* TIMEOUT or ERROR), with no real issue and no second sentinel beside it.
C13_SentinelAlone ==
    \A c \in CallIds :
        (LintDone(c) /\ calls[c].caught.lint # NoExc) =>
            calls[c].results.lint_issues = <<FlakeSentinel(calls[c].caught.lint)>>

\* the format step of call c is over
FormatDone(c) == IsAnalyze(c) /\ Len(calls[c].steps) >= 3

\* the diff-preview invocation of call c printed a diff
DiffPrinted(c) ==
    calls[c].got.black_diff # NoRes /\ Strip(calls[c].got.black_diff.out) # <<>>

\* C14: whenever the diff-preview invocation printed a diff, the format
\* step's result has formatting_needed = TRUE whatever the second (full
\* format) invocation does, and formatted_code is the second invocation's
\* output if it exited with status 0, else (non-zero exit, formatter missing,
\* timeout, other exception) the unmodified source.
C14_DiffMeansNeeded ==
    \A c \in CallIds :
        (FormatDone(c) /\ DiffPrinted(c)) =>
            /\ calls[c].results.formatting_needed = TRUE
            /\ calls[c].results.formatted_code =
                  IF calls[c].got.black_format # NoRes /\ calls[c].got.black_format.rc = 0
                  THEN calls[c].got.black_format.out
                  ELSE calls[c].code

\* the diff-preview invocation of call c printed nothing
DiffEmpty(c) ==
    calls[c].got.black_diff # NoRes /\ calls[c].got.black_diff.out = <<>>

\* C15: a format result with formatting_needed = FALSE carries the input
\* source itself as formatted_code; that is the result when the formatter
\* is missing, an invocation times out or raises, or the diff output is
\* empty; and an exception met in the format step ends in that return value,
\* not in an exception of the step.
C15_NotNeededKeepsSource ==
    \A c \in CallIds :
        IsAnalyze(c) =>
            /\ (FormatDone(c) /\ ~calls[c].results.formatting_needed) =>
                  calls[c].results.formatted_code = calls[c].code
            /\ (FormatDone(c) /\ DiffEmpty(c)) => ~calls[c].results.formatting_needed
            /\ calls[c].caught.format # NoExc =>
                  /\ FormatDone(c)
                  /\ ~calls[c].results.formatting_needed
                  /\ calls[c].results.formatted_code = calls[c].code

\* the second invocation timed out after a diff was printed, and the call
\* returned the source as it was, marked as not needing formatting
C15_Witness ==
    \E c \in CallIds :
        /\ IsAnalyze(c) /\ calls[c].status = "returned"
        /\ DiffPrinted(c) /\ calls[c].caught.format = "TimeoutExpired"
        /\ ~calls[c].results.formatting_needed
        /\ calls[c].results.formatted_code = calls[c].code

\* the complexity step of call c has returned its report
ComplexityDone(c) ==
    /\ IsAnalyze(c) /\ calls[c].steps = StepOrder
    /\ calls[c].pc \in {"an_cleanup", "done"} /\ calls[c].pending = NoExc

Report(c) == calls[c].results.complexity

\* what `radon cc -j` printed for the artifact of call c, as parsed JSON
CcSucceeded(c) ==
    /\ calls[c].got.radon_cc # NoRes /\ calls[c].got.radon_cc.rc = 0
    /\ JsonLoads(calls[c].got.radon_cc.out).ok
    /\ JsonLoads(calls[c].got.radon_cc.out).type = "dict"
    /\ HasKey(JsonLoads(calls[c].got.radon_cc.out), "THIS")
    /\ Lookup(JsonLoads(calls[c].got.radon_cc.out), "THIS").type = "list"

Listing(c) == Lookup(JsonLoads(calls[c].got.radon_cc.out), "THIS").items

Listed(c) ==
    /\ CcSucceeded(c) /\ Listing(c) # <<>>
    /\ \A i \in DOMAIN Listing(c) : Listing(c)[i].type = "dict"

ListedComplexity(c, i) == Get(Listing(c)[i], "complexity", 0)

\* C16: when the complexity tool printed a non-empty listing for the
\* artifact, the report has function_count = the number of listed entries,
\* max_complexity = the greatest of their complexity values and complexity
\* (the average) = their sum divided by their number, so average <= maximum.
C16_ListingMetrics ==
    \A c \in CallIds :
        (ComplexityDone(c) /\ Listed(c)) =>
            /\ {"function_count", "max_complexity", "complexity"} \subseteq DOMAIN Report(c)
            /\ Report(c).function_count = Len(Listing(c))
            /\ \A i \in DOMAIN Listing(c) : ListedComplexity(c, i) <= Report(c).max_complexity
            /\ \E i \in DOMAIN Listing(c) : ListedComplexity(c, i) = Report(c).max_complexity
            /\ Report(c).complexity.den = Len(Listing(c))
            /\ Report(c).complexity.num =
                  Sum([i \in DOMAIN Listing(c) |-> ListedComplexity(c, i)])
            /\ Report(c).complexity.num <= Report(c).max_complexity * Report(c).complexity.den

\* the function definitions written in a source, at any depth
DefsIn(code) == {i \in DOMAIN code : code[i] \in {"def", "async def"}}

\* C17: when the complexity tool succeeds (neither invocation fails) and its
\* listing for the artifact is empty (a source with no functions), the
\* report holds complexity = 0, max_complexity = 0 and function_count = 0.
C17_EmptyListingZeros ==
    \A c \in CallIds :
        (ComplexityDone(c) /\ calls[c].caught.complexity = NoExc
         /\ CcSucceeded(c) /\ Listing(c) = <<>> /\ DefsIn(calls[c].code) = {}) =>
            /\ {"function_count", "max_complexity", "complexity"} \subseteq DOMAIN Report(c)
            /\ Report(c).function_count = 0
            /\ Report(c).max_complexity = 0
            /\ Report(c).complexity = 0

\* neither complexity invocation of call c came back: the first one that was
\* tried ended in an exception (tool missing, timeout, other)
BothCallsFailed(c) ==
    /\ calls[c].caught.complexity # NoExc
    /\ calls[c].got.radon_cc = NoRes /\ calls[c].got.radon_mi = NoRes

CountIn(code, words) == Cardinality({i \in DOMAIN code : code[i] \in words})

BasicFallbackCase(c) ==
    ComplexityDone(c) /\ BothCallsFailed(c) /\ AstParse(calls[c].code).ok

BasicShape(c) ==
    /\ {"analysis_type", "function_count", "control_flow_count",
        "estimated_complexity"} \subseteq DOMAIN Report(c)
    /\ Report(c).analysis_type = "basic_ast"
    /\ Report(c).control_flow_count =
          CountIn(calls[c].code, {"if", "for", "while", "try"})
    /\ Report(c).estimated_complexity =
          Report(c).control_flow_count + Report(c).function_count

C19_NoChildAfterReturn ==
    \A c \in CallIds :
        /\ calls[c].status \in {"returned", "raised"} => ~calls[c].child
        /\ calls[c].timedOut => ~calls[c].child
        /\ calls[c].child =>
              \/ IsExec(c) /\ calls[c].pc = "wait"
              \/ (IsAnalyze(c) \/ IsLint(c))
                    /\ calls[c].pc \in {"lint", "format", "complexity"}

\* a python run hit the 10 seconds: the call is over with the timeout
\* message, the program was started once and is no longer running
C19_Witness ==
    \E c \in CallIds :
        /\ calls[c].status = "returned" /\ ~calls[c].child
        /\ calls[c].op = "python" /\ calls[c].timedOut
        /\ calls[c].launches.run = 1
        /\ calls[c].ret = << <<>>, TimeoutMsg >>

IsAi(c) == calls[c].op \in AiOps

\* C20: with an API key configured, generate_hint (and likewise
\* help_me_write and generate_full_solution) asks the model client at most 3
\* times per request (one attempt and max_retries = 2 retries); each attempt
\* but the last has failed; the first attempt that succeeds ends the call,
\* which returns that attempt's text (as the code takes it, with leading and
\* trailing whitespace stripped); after one failed and one successful attempt
\* the client has been asked exactly twice and the second response is the
\* result.
C20_AtMostThreeAttempts ==
    \A c \in CallIds :
        (IsAi(c) /\ calls[c].hasKey) =>
            /\ calls[c].requests <= max_retries + 1
            /\ calls[c].requests = Len(calls[c].log)
            /\ calls[c].retry_count <= max_retries + 1
            /\ \A i \in DOMAIN calls[c].log :
                  i < Len(calls[c].log) => calls[c].log[i] = "fail"
            /\ \A i \in DOMAIN calls[c].log :
                  calls[c].log[i] = "ok" =>
                      /\ calls[c].status = "returned"
                      /\ calls[c].answer \in Contents(i)
                      /\ calls[c].ret = Strip(calls[c].answer)
            /\ calls[c].log = <<"fail", "ok">> => calls[c].requests = 2

\* the first attempt failed, the second answered with whitespace around its
\* text: asked twice, and the second text came back
C20_Witness ==
    \E c \in CallIds :
        /\ calls[c].op = "generate_hint" /\ calls[c].hasKey
        /\ calls[c].status = "returned"
        /\ calls[c].log = <<"fail", "ok">> /\ calls[c].requests = 2
        /\ calls[c].answer = <<" ", "a2", "LF">>
        /\ calls[c].ret = <<"a2">>


\* ---------------------------------------------------------------------
\* C21: generate_hint, help_me_write and generate_full_solution never raise
\* and always return a text, never None; without an API key they return the
\* fallback text and the model client is neither built nor called; when the
\* construction of the client fails, or every attempt fails, they return the
\* fallback text.
AllAttemptsFailed(c) ==
    /\ Len(calls[c].log) = max_retries + 1
    /\ \A i \in 1..Len(calls[c].log) : calls[c].log[i] = "fail"

C21_AiNeverRaises ==
    \A c \in CallIds :
        IsAi(c) =>
            /\ calls[c].status # "raised"
            /\ calls[c].status = "returned" =>
                  /\ IsText(calls[c].ret)
                  /\ calls[c].ret # None
                  /\ ~calls[c].hasKey =>
                        /\ calls[c].ret = Fallback(calls[c].op)
                        /\ calls[c].lib = "none"
                        /\ calls[c].requests = 0
                  /\ calls[c].exc # NoExc =>
                        /\ calls[c].ret = Fallback(calls[c].op)
                        /\ calls[c].requests = 0
                  /\ AllAttemptsFailed(c) => calls[c].ret = Fallback(calls[c].op)

\* the key is set, but the client could not be built: the fallback came back
C21_Witness ==
    \E c \in CallIds :
        /\ IsAi(c)
        /\ calls[c].status = "returned"
        /\ calls[c].hasKey
        /\ calls[c].exc = "ValueError"
        /\ calls[c].ret = Fallback(calls[c].op)


\* ---------------------------------------------------------------------
\* C22: a decode failure of the capture never surfaces, neither as an
\* exception nor as an error result: once text-mode capture has raised the
\* decode error, the runner goes on to a normal result built from the bytes
\* of the output decoded with replacement.  Stated on the steps a call takes
\* between the decode error and the end of that invocation: none of them
\* ends the invocation in an exception or in an error result (a timeout, a
\* launch failure), and the text the execute call goes on with is the
\* replaced decoding of the captured bytes.
DecodeFallback(c) ==
    /\ calls[c].mode = "bytes"
    /\ \/ IsExec(c) /\ calls[c].pc \in {"launch", "wait"}
       \/ IsAnalyze(c) /\ calls[c].pc \in {"lint", "format", "complexity"}

C22_DecodeFailureNeverSurfaces ==
    [][\A c \in CallIds :
          DecodeFallback(c) =>
              /\ calls'[c].status # "raised"
              /\ IsExec(c) =>
                    /\ calls'[c].exc = NoExc
                    /\ calls'[c].pc \notin {"launch", "wait"} =>
                          /\ calls'[c].res.out = DecodeReplace(calls'[c].raw.out)
                          /\ calls'[c].res.err = DecodeReplace(calls'[c].raw.err)
              /\ IsAnalyze(c) =>
                    /\ calls'[c].pending = NoExc
                    /\ calls'[c].caught[calls[c].pc]
                          \notin {"TimeoutExpired"} \cup LaunchErrors]_vars


\* ---------------------------------------------------------------------
\* C23: run_flake8_analysis starts the linter at most twice and takes its
\* strategies in a fixed order.  The JSON invocation comes first; the text
\* parser is not applied to an output that is valid JSON; the text-mode
\* invocation happens only if the first gave no issue and exited non-zero;
\* when the JSON output holds at least one issue the result is exactly its
\* issues, in order, with no second invocation; exit status 0 with empty
\* output gives the empty list.
\* the issues of an output that is valid JSON and was iterated to its end
Structured(out) ==
    LET v == JsonLoads(out) IN
    IF out # <<>> /\ v.ok /\ IterateIssues(v).exc = NoExc
    THEN [ok |-> TRUE, issues |-> IterateIssues(v).issues]
    ELSE [ok |-> FALSE, issues |-> <<>>]

\* the text-mode invocation was reached
SecondInvocation(c) == calls[c].stage = "flake8_text"

FlakeOrder(c) ==
    LET L == calls[c].linter
        first == L.json
    IN  /\ SecondInvocation(c) => first # NoRes
        /\ first # NoRes =>
              /\ (Structured(first.out).ok /\ ~SecondInvocation(c)) =>
                    calls[c].ret = Structured(first.out).issues
              /\ SecondInvocation(c) =>
                    /\ StructuredIssues(first.out).issues = <<>>
                    /\ first.rc # 0
              /\ (Structured(first.out).ok /\ Structured(first.out).issues # <<>>) =>
                    /\ calls[c].ret = Structured(first.out).issues
                    /\ ~SecondInvocation(c)
              /\ (first.rc = 0 /\ first.out = <<>>) => calls[c].ret = <<>>

C23_FlakeStrategies ==
    \A c \in CallIds :
        (IsLint(c) /\ calls[c].status = "returned") =>
            /\ calls[c].linter.starts <= 2
            /\ FlakeOrder(c)


\* ---------------------------------------------------------------------
\* C24: parse_flake8_standard_output returns its issues in the order of the
\* input lines, and each line counts on its own: a line yields an issue
\* exactly when it has the shape <path>:<line>:<column>:<code> <message> with
\* integer line and column fields; the code is the first whitespace-delimited
\* token after the column field and the message is the text after that
\* token; every other line is skipped.
IsParse(c) == calls[c].op = "parse_flake8_standard_output"

\* the lines of a text: the pieces between its line feeds
LinesOf(text) == Split(Strip(text), "LF", -1)

\* line = path ":" line ":" column ":" rest, with a path, two integer fields
\* and a code at least; the colons of the fields are at i, j, k
FieldColons(line) ==
    { ijk \in (DOMAIN line) \X (DOMAIN line) \X (DOMAIN line) :
        /\ 1 < ijk[1] /\ ijk[1] < ijk[2] /\ ijk[2] < ijk[3]
        /\ \A n \in {1, 2, 3} : line[ijk[n]] = ":"
        /\ IsInt(SubSeq(line, ijk[1] + 1, ijk[2] - 1))
        /\ IsInt(SubSeq(line, ijk[2] + 1, ijk[3] - 1))
        /\ Strip(SubSeq(line, ijk[3] + 1, Len(line))) # <<>> }
HasShape(line) == FieldColons(line) # {}

\* the issue such a line stands for
ShapeIssue(line) ==
    LET ijk == CHOOSE x \in FieldColons(line) : TRUE
        rest == Strip(SubSeq(line, ijk[3] + 1, Len(line)))
        token == Split(rest, " ", 1)
    IN  Issue(IntOf(SubSeq(line, ijk[1] + 1, ijk[2] - 1)),
              IntOf(SubSeq(line, ijk[2] + 1, ijk[3] - 1)),
              IF Len(token) > 1 THEN token[2] ELSE <<>>,
              token[1])

RECURSIVE IssuesOfLines(_)
IssuesOfLines(lines) ==
    IF lines = <<>> THEN <<>>
    ELSE (IF HasShape(Head(lines)) THEN <<ShapeIssue(Head(lines))>> ELSE <<>>)
            \o IssuesOfLines(Tail(lines))

C24_ParseStandardOutput ==
    \A c \in CallIds :
        (IsParse(c) /\ calls[c].status = "returned") =>
            calls[c].ret = IssuesOfLines(LinesOf(calls[c].code))


\* ---------------------------------------------------------------------
\* C25: every issue of the list that run_flake8_analysis returns, parsed from
\* JSON, parsed from text or a sentinel, has an integer line >= 0 and an
\* integer column >= 0, for every output of the linter.
LintIssues(c) ==
    IF IsLint(c) THEN calls[c].ret ELSE calls[c].results.lint_issues

C26_SingleLaunch ==
    \A c \in CallIds :
        IsExec(c) =>
            /\ calls[c].launches.run <= 1
            /\ calls[c].launches.compile <= 1


\* ---------------------------------------------------------------------
\* C27: a complexity report comes from one source.  The basic-fallback
\* fields are in it only when both external calls failed entirely; it never
\* holds a metric of the external tool together with basic-fallback fields;
\* and a function_count that the external tool supplied is not overwritten
\* by the fallback.
BasicFields == {"analysis_type", "estimated_complexity", "class_count", "control_flow_count"}
ExternalFields == {"complexity", "max_complexity", "maintainability"}

\* an invocation of the external tool came back and a metric was read from
\* its output
GaveMetric(c) ==
    \/ /\ calls[c].got.radon_cc # NoRes
       /\ RadonCc(calls[c].got.radon_cc, EmptyDict, "THIS").exc = NoExc
       /\ RadonCc(calls[c].got.radon_cc, EmptyDict, "THIS").data # EmptyDict
    \/ /\ calls[c].got.radon_mi # NoRes
       /\ RadonMi(calls[c].got.radon_mi, EmptyDict, "THIS").exc = NoExc
       /\ RadonMi(calls[c].got.radon_mi, EmptyDict, "THIS").data # EmptyDict

C27_ReportOneSource ==
    \A c \in CallIds :
        ComplexityDone(c) =>
            /\ (DOMAIN Report(c) \cap BasicFields # {}) => ~GaveMetric(c)
            /\ ~(/\ DOMAIN Report(c) \cap BasicFields # {}
                 /\ DOMAIN Report(c) \cap ExternalFields # {})
            /\ Listed(c) => /\ "function_count" \in DOMAIN Report(c)
                            /\ Report(c).function_count = Len(Listing(c))


\* ---------------------------------------------------------------------
\* C28: in every complexity report the error field and the numeric metric
\* fields exclude each other: error is there only when the external tool
\* failed and the fallback failed too, and then no numeric field is there.
NumericFields ==
    {"complexity", "max_complexity", "function_count", "maintainability",
     "class_count", "control_flow_count", "estimated_complexity"}

FallbackFailed(c) ==
    "error" \in DOMAIN basic_ast_analysis(fs, calls[c].temp)

C28_ErrorExcludesMetrics ==
    \A c \in CallIds :
        (ComplexityDone(c) /\ calls[c].pc = "an_cleanup"
         /\ "error" \in DOMAIN Report(c)) =>
            /\ DOMAIN Report(c) \cap NumericFields = {}
            /\ calls[c].caught.complexity # NoExc
            /\ FallbackFailed(c)


\* ---------------------------------------------------------------------
\* C29: handle_run_code shows "Code executed successfully!" exactly when the
\* harness succeeded and the user's program exited with status 0, and "Code
\* execution completed with errors." exactly when the harness failed or the
\* program exited non-zero.
HarnessSucceeded(c) ==
    /\ calls[c].exc = NoExc
    /\ calls[c].stage = "run" /\ calls[c].launches.run > 0

ProgramExit(c) == calls[c].raw.rc

C29_RunMessage ==
    \A c \in CallIds :
        (IsExec(c) /\ calls[c].shown # "none") =>
            /\ calls[c].shown = "Code executed successfully!"
                  <=> (HarnessSucceeded(c) /\ ProgramExit(c) = 0)
            /\ calls[c].shown = "Code execution completed with errors."
                  <=> (~HarnessSucceeded(c) \/ ProgramExit(c) # 0)


\* ---------------------------------------------------------------------
\* C30: classify_problem_type returns "binary search" for every statement
\* that contains the phrase "binary search" and no palindrome, two-sum or
\* fibonacci keyword; such a statement is never classified "sorting" or
\* "searching"; a statement with no keyword of any category is "general".
IsClassify(c) == calls[c].op = "classify_problem_type"

KeywordsOf(names) ==
    UNION {Categories[i].terms : i \in {j \in DOMAIN Categories : Categories[j].name \in names}}

AllKeywords == UNION {Categories[i].terms : i \in DOMAIN Categories}

C30_BinarySearchClass ==
    \A c \in CallIds :
        (IsClassify(c) /\ calls[c].status = "returned") =>
            /\ (/\ "binary search" \in TermsOf(calls[c].code)
                /\ TermsOf(calls[c].code)
                      \cap KeywordsOf({"palindrome", "two sum", "fibonacci"}) = {})
                  => calls[c].ret = <<"binary search">>
            /\ TermsOf(calls[c].code) \cap AllKeywords = {}
                  => calls[c].ret = <<"general">>

====
